---- MODULE Spec2Model ----
(***************************************************************************)
(* Model of ascii_process_viewer.py: the refresh loop of main(), the       *)
(* sampler fetch_processes(), the ranking sort, the layout and rendering   *)
(* of draw() and the bar function proportion_bar().                        *)
(*                                                                         *)
(* Units: percentages (cpu, mem, bar values) are integers in tenths of a   *)
(* percent (1000 is 100.0%); the refresh interval is in tenths of a        *)
(* second.  Printed lines are strings.                                     *)
(***************************************************************************)
EXTENDS Integers, Sequences, FiniteSets, TLC

VARIABLES
    pc,          \* the statement of main()/fetch_processes()/draw() about to run
    args,        \* argparse result: [top, refresh]
    top_n,       \* main: top_n
    refresh,     \* main: refresh
    it,          \* position of the process_iter() loop (pids 1..it are done)
    lastq,       \* what process_iter and the queries returned for the last process
    fprocs,      \* fetch_processes: the local list procs
    procs,       \* main: procs
    term_width,  \* main: term_width
    cpu_bar_w,   \* draw: cpu_bar_w
    mem_bar_w,   \* draw: mem_bar_w
    ri,          \* draw: number of rows of procs[:top_n] already printed
    screen,      \* lines on standard output since the last clear_screen()
    exit_status, \* the process's exit status, -1 while it runs
    cleared,     \* history: clear_screen() has run at least once
    done,        \* history: the loop's statements completed in this iteration
    fetched,     \* history: the list fetch_processes() returned in this iteration
    measured,    \* history: the width get_terminal_size() gave in this iteration
    gone,        \* history: pids not enumerated, or whose query raised, in this fetch
    prevShown,   \* history: pids of the rows on the screen the last clear wiped
    intr_at,     \* history: the value of pc when the first interrupt arrived
    bar_in,      \* proportion_bar harness: [value, width]
    bar_out      \* proportion_bar harness: the string returned

vars == <<pc, args, top_n, refresh, it, lastq, fprocs, procs, term_width,
          cpu_bar_w, mem_bar_w, ri, screen, exit_status, cleared, done,
          fetched, measured, gone, prevShown, intr_at, bar_in, bar_out>>

----------------------------------------------------------------------------
(* Configuration (lines 34-37) *)

DEFAULT_REFRESH == 10
MIN_BAR_WIDTH == 10
MAX_NAME_LEN == 25

(* Bounds of the model *)

\* processes the host may run have pids 1..MaxPid
MaxPid == 2
\* -n/--top is drawn from 0..MaxTop
MaxTop == 3
\* terminal widths of the layout specification are 1..MaxWidth
MaxWidth == 90
\* bar widths of the proportion_bar specification are 0..MaxBarWidth
MaxBarWidth == 6
\* bar values run from -5*BarOver to 1000 + 5*BarOver tenths of a percent
BarOver == 50
\* lists of the ranking specification have at most MaxSortLen records
MaxSortLen == 3

----------------------------------------------------------------------------
(* Python built-ins *)

Max(a, b) == IF a >= b THEN a ELSE b
Min(a, b) == IF a <= b THEN a ELSE b

\* c * n for a one-character string c: the empty string when n <= 0
RECURSIVE Rep(_, _)
Rep(c, n) ==
    IF n <= 0 THEN ""
    ELSE IF n = 1 THEN c
    ELSE LET half == Rep(c, n \div 2)
         IN  half \o half \o (IF n % 2 = 1 THEN c ELSE "")

\* s[:n], n >= 0
Take(s, n) == SubSeq(s, 1, Min(n, Len(s)))

\* format(s, '<w') and format(s, '>w'): pad, never cut
LJust(s, w) == s \o Rep(" ", w - Len(s))
RJust(s, w) == Rep(" ", w - Len(s)) \o s

\* format(v, '.1f') of a non-negative value held in tenths
Fixed1(v) == ToString(v \div 10) \o "." \o ToString(v % 10)

\* round(n / d), d > 0: Python 3 rounds a half to the even neighbour
round(n, d) ==
    LET q == n \div d
        r == n % d
    IN  IF 2 * r < d THEN q
        ELSE IF 2 * r > d THEN q + 1
        ELSE IF q % 2 = 0 THEN q ELSE q + 1

\* list(reversed(s))
Reverse(s) == [i \in 1..Len(s) |-> s[Len(s) + 1 - i]]

----------------------------------------------------------------------------
(* proportion_bar (lines 51-60) *)

clamp(v, a, b) == Max(a, Min(b, v))

\* a plausible bug: the value is not clamped
proportion_bar_unclamped(value, width) ==
    LET filled == round(value * width, 1000)
        empty == width - filled
    IN  "[" \o Rep("#", filled) \o Rep(" ", empty) \o "]"

proportion_bar(value, width) ==
    LET v == clamp(value, 0, 1000)
        filled == round(v * width, 1000)
        empty == width - filled
    IN  "[" \o Rep("#", filled) \o Rep(" ", empty) \o "]"

----------------------------------------------------------------------------
(* The ranking: procs.sort(key=(cpu, mem), reverse=True) (line 162) *)

\* key(a) < key(b) on the tuples (cpu, mem)
KeyLess(a, b) == a.cpu < b.cpu \/ (a.cpu = b.cpu /\ a.mem < b.mem)

\* x put into the ascending list t behind every record whose key is not greater
Insert(t, x) ==
    LET k == Cardinality({i \in 1..Len(t) : ~KeyLess(x, t[i])})
    IN  SubSeq(t, 1, k) \o <<x>> \o SubSeq(t, k + 1, Len(t))

\* the stable ascending sort list.sort performs, as an insertion sort (the
\* sorted prefix is bound by a quantifier so that it is evaluated once)
RECURSIVE SortAsc(_)
SortAsc(s) ==
    IF Len(s) = 0 THEN <<>>
    ELSE CHOOSE r \in {Insert(t, s[Len(s)]) : t \in {SortAsc(SubSeq(s, 1, Len(s) - 1))}} :
             TRUE

\* a plausible bug: sort ascending, then reverse the result
sort_then_reverse(s) == Reverse(SortAsc(s))

\* list.sort(reverse=True): the list is reversed, sorted stably, reversed again
sort_reverse(s) == Reverse(SortAsc(Reverse(s)))

----------------------------------------------------------------------------
(* The process table seen by fetch_processes (lines 65-82) *)

Pids == 1..MaxPid
Errors == {"NoSuchProcess", "AccessDenied"}
\* values cpu_percent() and memory_percent() may return, in tenths of a percent
CpuVals == {0, 1250}
MemVals == {25}

\* p.info['name'] as the host reports it: None, or a string of any length
OsName(pid) ==
    IF pid % 3 = 1 THEN [none |-> TRUE, s |-> ""]
    ELSE IF pid % 3 = 2 THEN [none |-> FALSE, s |-> "systemd-" \o Rep("x", MAX_NAME_LEN)]
    ELSE [none |-> FALSE, s |-> "sh"]

NoQuery == [pid |-> 0, listed |-> FALSE, cpu_err |-> "none", cpu |-> 0,
            mem_err |-> "none", mem |-> 0]

\* what one pass of the loop body can meet for process pid: process_iter does
\* not yield it; cpu_percent raises; memory_percent raises; both return
Queries(pid) ==
    {[NoQuery EXCEPT !.pid = pid]}
    \cup {[NoQuery EXCEPT !.pid = pid, !.listed = TRUE, !.cpu_err = e] : e \in Errors}
    \cup {[NoQuery EXCEPT !.pid = pid, !.listed = TRUE, !.cpu = c, !.mem_err = e] :
             c \in CpuVals, e \in Errors}
    \cup {[NoQuery EXCEPT !.pid = pid, !.listed = TRUE, !.cpu = c, !.mem = m] :
             c \in CpuVals, m \in MemVals}

\* the priming loop calls cpu_percent only; its first call returns 0.0
PrimeQueries(pid) ==
    {[NoQuery EXCEPT !.pid = pid]}
    \cup {[NoQuery EXCEPT !.pid = pid, !.listed = TRUE, !.cpu_err = e] :
             e \in Errors \cup {"none"}}

\* a plausible bug: only the vanished process is caught
CaughtNoSuchOnly == {"NoSuchProcess"}

\* the exceptions the except clause of line 80 catches
Caught == {"NoSuchProcess", "AccessDenied"}

Raised(q) == IF q.cpu_err # "none" THEN q.cpu_err ELSE q.mem_err

\* (info.get('name') or '')[:MAX_NAME_LEN]
NameField(n) == IF n.none THEN "" ELSE Take(n.s, MAX_NAME_LEN)

\* the dict appended at lines 74-79
ProcDict(q) == [pid |-> q.pid, name |-> NameField(OsName(q.pid)),
                cpu |-> q.cpu, mem |-> q.mem]

----------------------------------------------------------------------------
(* Layout and lines of draw (lines 85-138) *)

pid_w == 6
cpu_pct_w == 6
mem_pct_w == 6
name_w == 1 + MAX_NAME_LEN

\* a plausible bug: the spacing and the printed signs are not reserved
reserved_columns_only == pid_w + name_w + cpu_pct_w + mem_pct_w

reserved == pid_w + name_w + cpu_pct_w + mem_pct_w + 10

bar_space(tw) == Max(MIN_BAR_WIDTH, tw - reserved)

\* a plausible bug: the odd cell goes to the CPU bar
split_cpu_rounded_up(bs) == (bs + 1) \div 2

split_cpu(bs) == bs \div 2
split_mem(bs) == bs - split_cpu(bs)

rule_line(tw) == Rep("-", tw)

header_line(cbw, mbw) ==
    LJust("PID", pid_w) \o " " \o LJust("NAME", name_w) \o " "
    \o RJust("CPU%", cpu_pct_w) \o " " \o LJust("CPU BAR", cbw + 2) \o " "
    \o RJust("MEM%", mem_pct_w) \o " " \o LJust("MEM BAR", mbw + 2)

row_line(p, cbw, mbw) ==
    LET pid == Take(ToString(p.pid), pid_w)
        name == Take(p.name, MAX_NAME_LEN)
        cpu_bar == proportion_bar(p.cpu, cbw - 2)
        mem_bar == proportion_bar(p.mem, mbw - 2)
    IN  LJust(pid, pid_w) \o " " \o LJust(name, name_w) \o " "
        \o RJust(Fixed1(p.cpu), cpu_pct_w) \o "% " \o cpu_bar \o " "
        \o RJust(Fixed1(p.mem), mem_pct_w) \o "% " \o mem_bar

\* the title of line 119 (its dash is written "-" here)
title_line(n, r) ==
    "ASCII Process Viewer - top " \o ToString(n)
    \o " processes by CPU (refresh " \o Fixed1(r) \o "s)"

footer_line(total, k) ==
    "Processes: " \o ToString(total) \o " | Showing top " \o ToString(k)
    \o " by CPU usage"

\* a plausible bug: the footer repeats top_n
footer_count_top_n(n, len) == n

\* min(top_n, len(procs)) of line 138
footer_count(n, len) == Min(n, len)

\* procs[:top_n]
shown(ps, n) == Take(ps, n)

----------------------------------------------------------------------------
(* main (lines 141-168) *)

\* the command line: -n/--top and -r/--refresh (tenths of a second)
ArgTops == 0..MaxTop
ArgRefresh == {0, DEFAULT_REFRESH}

\* widths shutil.get_terminal_size((120, 20)).columns may give
TermWidths == {40, 80}

\* the statements inside the try block of lines 157-165
TryPcs == {"sleep", "fetch", "fetch_iter", "sort", "measure", "clear", "draw",
           "draw_logo", "draw_title", "draw_rule1", "draw_header", "draw_rule2",
           "draw_rows", "draw_footer"}

\* the exit status of an interpreter that ends on an unhandled exception: not
\* zero (1; an unhandled KeyboardInterrupt may also end it by SIGINT, 130 to a shell)
UncaughtStatus == {1}

\* what len(psutil.pids()) may give at line 137: the processes sampled, or
\* another count (processes skipped, started or gone since the sample)
Totals(ps) == {Len(ps), MaxPid + 1}

\* a plausible bug: the screen is cleared after the draw, not before it
FollowingClearLast(step) ==
    CASE step = "sleep" -> "fetch"
      [] step = "fetch" -> "sort"
      [] step = "sort" -> "measure"
      [] step = "measure" -> "draw"
      [] step = "draw" -> "clear"
      [] step = "clear" -> "sleep"

\* a plausible bug: the terminal is not measured again
FollowingNoMeasure(step) ==
    CASE step = "sleep" -> "fetch"
      [] step = "fetch" -> "sort"
      [] step = "sort" -> "clear"
      [] step = "measure" -> "clear"
      [] step = "clear" -> "draw"
      [] step = "draw" -> "sleep"

\* the order of the statements of the while loop (lines 158-165)
Following(step) ==
    CASE step = "sleep" -> "fetch"
      [] step = "fetch" -> "sort"
      [] step = "sort" -> "measure"
      [] step = "measure" -> "clear"
      [] step = "clear" -> "draw"
      [] step = "draw" -> "sleep"

Emit(l) == screen' = Append(screen, l)

RowPids(scr) == {scr[i].pid : i \in {j \in 1..Len(scr) : scr[j].kind = "row"}}

Init ==
    /\ pc = "clamp"
    /\ args \in [top : ArgTops, refresh : ArgRefresh]
    /\ top_n = 0
    /\ refresh = 0
    /\ it = 0
    /\ lastq = NoQuery
    /\ fprocs = <<>>
    /\ procs = <<>>
    /\ term_width = 0
    /\ cpu_bar_w = 0
    /\ mem_bar_w = 0
    /\ ri = 0
    /\ screen = <<>>
    /\ exit_status = -1
    /\ cleared = FALSE
    /\ done = <<>>
    /\ fetched = <<>>
    /\ measured = 0
    /\ gone = {}
    /\ prevShown = {}
    /\ intr_at = "none"
    /\ bar_in = [value |-> 0, width |-> 0]
    /\ bar_out = ""

\* lines 147-148
Clamp ==
    /\ pc = "clamp"
    /\ top_n' = Max(1, args.top)
    /\ refresh' = Max(1, args.refresh)
    /\ pc' = "prime"
    /\ UNCHANGED <<args, it, lastq, fprocs, procs, term_width, cpu_bar_w,
                   mem_bar_w, ri, screen, exit_status, cleared, done, fetched,
                   measured, gone, prevShown, intr_at, bar_in, bar_out>>

\* lines 151-155: one pass of the priming loop
PrimeIter ==
    /\ pc = "prime"
    /\ it < MaxPid
    /\ \E q \in PrimeQueries(it + 1) : lastq' = q
    /\ it' = it + 1
    /\ UNCHANGED <<pc, args, top_n, refresh, fprocs, procs, term_width,
                   cpu_bar_w, mem_bar_w, ri, screen, exit_status, cleared, done,
                   fetched, measured, gone, prevShown, intr_at, bar_in, bar_out>>

\* the priming loop is exhausted: the try block and the while loop are entered
PrimeDone ==
    /\ pc = "prime"
    /\ it = MaxPid
    /\ pc' = "sleep"
    /\ it' = 0
    /\ lastq' = NoQuery
    /\ UNCHANGED <<args, top_n, refresh, fprocs, procs, term_width, cpu_bar_w,
                   mem_bar_w, ri, screen, exit_status, cleared, done, fetched,
                   measured, gone, prevShown, intr_at, bar_in, bar_out>>

\* line 159: time.sleep(refresh) returns
Sleep ==
    /\ pc = "sleep"
    /\ pc' = Following("sleep")
    /\ done' = <<"sleep">>
    /\ fetched' = <<>>
    /\ measured' = 0
    /\ UNCHANGED <<args, top_n, refresh, it, lastq, fprocs, procs, term_width,
                   cpu_bar_w, mem_bar_w, ri, screen, exit_status, cleared,
                   gone, prevShown, intr_at, bar_in, bar_out>>

\* line 160 calls fetch_processes; lines 67-68: procs = [], the iteration starts
FetchStart ==
    /\ pc = "fetch"
    /\ pc' = "fetch_iter"
    /\ fprocs' = <<>>
    /\ it' = 0
    /\ gone' = {}
    /\ prevShown' = {}
    /\ UNCHANGED <<args, top_n, refresh, lastq, procs, term_width, cpu_bar_w,
                   mem_bar_w, ri, screen, exit_status, cleared, done, fetched,
                   measured, intr_at, bar_in, bar_out>>

\* lines 68-81: one pass of the loop over process_iter
FetchIter ==
    /\ pc = "fetch_iter"
    /\ it < MaxPid
    /\ \E q \in Queries(it + 1) :
          /\ lastq' = q
          /\ it' = it + 1
          /\ IF ~q.listed
             THEN /\ fprocs' = fprocs
                  /\ gone' = gone \cup {q.pid}
                  /\ UNCHANGED <<pc, exit_status>>
             ELSE IF Raised(q) = "none"
             THEN /\ fprocs' = Append(fprocs, ProcDict(q))
                  /\ UNCHANGED <<pc, exit_status, gone>>
             ELSE IF Raised(q) \in Caught
             THEN /\ fprocs' = fprocs
                  /\ gone' = gone \cup {q.pid}
                  /\ UNCHANGED <<pc, exit_status>>
             ELSE /\ pc' = "crashed"
                  /\ exit_status' \in UncaughtStatus
                  /\ gone' = gone \cup {q.pid}
                  /\ fprocs' = fprocs
    /\ UNCHANGED <<args, top_n, refresh, procs, term_width, cpu_bar_w,
                   mem_bar_w, ri, screen, cleared, done, fetched, measured,
                   prevShown, intr_at, bar_in, bar_out>>

\* line 82 and the assignment of line 160
FetchReturn ==
    /\ pc = "fetch_iter"
    /\ it = MaxPid
    /\ procs' = fprocs
    /\ fetched' = fprocs
    /\ fprocs' = <<>>
    /\ it' = 0
    /\ lastq' = NoQuery
    /\ pc' = Following("fetch")
    /\ done' = Append(done, "fetch")
    /\ UNCHANGED <<args, top_n, refresh, term_width, cpu_bar_w, mem_bar_w, ri,
                   screen, exit_status, cleared, measured, gone, prevShown,
                   intr_at, bar_in, bar_out>>

\* line 162
Sort ==
    /\ pc = "sort"
    /\ procs' = sort_reverse(procs)
    /\ pc' = Following("sort")
    /\ done' = Append(done, "sort")
    /\ UNCHANGED <<args, top_n, refresh, it, lastq, fprocs, term_width,
                   cpu_bar_w, mem_bar_w, ri, screen, exit_status, cleared,
                   fetched, measured, gone, prevShown, intr_at, bar_in, bar_out>>

\* line 163
Measure ==
    /\ pc = "measure"
    /\ \E w \in TermWidths : term_width' = w /\ measured' = w
    /\ pc' = Following("measure")
    /\ done' = Append(done, "measure")
    /\ UNCHANGED <<args, top_n, refresh, it, lastq, fprocs, procs, cpu_bar_w,
                   mem_bar_w, ri, screen, exit_status, cleared, fetched, gone,
                   prevShown, intr_at, bar_in, bar_out>>

\* line 164 (lines 41-48)
Clear ==
    /\ pc = "clear"
    /\ screen' = <<>>
    /\ cleared' = TRUE
    /\ prevShown' = RowPids(screen)
    /\ pc' = Following("clear")
    /\ done' = Append(done, "clear")
    /\ UNCHANGED <<args, top_n, refresh, it, lastq, fprocs, procs, term_width,
                   cpu_bar_w, mem_bar_w, ri, exit_status, fetched, measured,
                   gone, intr_at, bar_in, bar_out>>

\* line 165 calls draw; lines 89-99: the layout
Draw ==
    /\ pc = "draw"
    /\ cpu_bar_w' = split_cpu(bar_space(term_width))
    /\ mem_bar_w' = split_mem(bar_space(term_width))
    /\ ri' = 0
    /\ pc' = "draw_logo"
    /\ UNCHANGED <<args, top_n, refresh, it, lastq, fprocs, procs, term_width,
                   screen, exit_status, cleared, done, fetched, measured, gone,
                   prevShown, intr_at, bar_in, bar_out>>

drawFrame == <<args, top_n, refresh, it, lastq, fprocs, procs, term_width,
               cpu_bar_w, mem_bar_w, exit_status, cleared, done, fetched,
               measured, gone, prevShown, intr_at, bar_in, bar_out>>

\* line 117: the banner of lines 103-116, held here as one short line
DrawLogo ==
    /\ pc = "draw_logo"
    /\ Emit([kind |-> "logo", text |-> "Aeg1sOps"])
    /\ pc' = "draw_title"
    /\ UNCHANGED <<drawFrame, ri>>

\* line 119
DrawTitle ==
    /\ pc = "draw_title"
    /\ Emit([kind |-> "title", text |-> title_line(top_n, refresh), top |-> top_n])
    /\ pc' = "draw_rule1"
    /\ UNCHANGED <<drawFrame, ri>>

\* line 120
DrawRule1 ==
    /\ pc = "draw_rule1"
    /\ Emit([kind |-> "rule", text |-> rule_line(term_width)])
    /\ pc' = "draw_header"
    /\ UNCHANGED <<drawFrame, ri>>

\* lines 121-122
DrawHeader ==
    /\ pc = "draw_header"
    /\ Emit([kind |-> "header", text |-> header_line(cpu_bar_w, mem_bar_w)])
    /\ pc' = "draw_rule2"
    /\ UNCHANGED <<drawFrame, ri>>

\* line 123
DrawRule2 ==
    /\ pc = "draw_rule2"
    /\ Emit([kind |-> "rule", text |-> rule_line(term_width)])
    /\ pc' = "draw_rows"
    /\ UNCHANGED <<drawFrame, ri>>

\* lines 125-133: one pass of the loop over procs[:top_n]
DrawRow ==
    /\ pc = "draw_rows"
    /\ ri < Len(shown(procs, top_n))
    /\ LET p == shown(procs, top_n)[ri + 1]
       IN  Emit([kind |-> "row", text |-> row_line(p, cpu_bar_w, mem_bar_w),
                  pid |-> p.pid])
    /\ ri' = ri + 1
    /\ UNCHANGED <<drawFrame, pc>>

\* line 135, once the loop over procs[:top_n] is exhausted
DrawRule3 ==
    /\ pc = "draw_rows"
    /\ ri = Len(shown(procs, top_n))
    /\ Emit([kind |-> "rule", text |-> rule_line(term_width)])
    /\ pc' = "draw_footer"
    /\ UNCHANGED <<drawFrame, ri>>

\* lines 137-138; draw returns and the loop goes round
DrawFooter ==
    /\ pc = "draw_footer"
    /\ \E total \in Totals(procs) :
          LET k == footer_count(top_n, Len(procs))
          IN  Emit([kind |-> "footer", text |-> footer_line(total, k),
                     total |-> total, showing |-> k])
    /\ cpu_bar_w' = 0
    /\ mem_bar_w' = 0
    /\ ri' = 0
    /\ pc' = Following("draw")
    /\ done' = Append(done, "draw")
    /\ UNCHANGED <<args, top_n, refresh, it, lastq, fprocs, procs, term_width,
                   exit_status, cleared, fetched, measured, gone, prevShown,
                   intr_at, bar_in, bar_out>>

\* a KeyboardInterrupt is raised in the main thread before the statement at pc:
\* inside the try block control passes to the handler of line 166, elsewhere
\* the exception is unhandled and the interpreter ends with a traceback
Interrupt ==
    /\ pc \notin {"stopped", "crashed"}
    /\ intr_at' = IF intr_at = "none" THEN pc ELSE intr_at
    /\ IF pc \in TryPcs
       THEN pc' = "except" /\ exit_status' = exit_status
       ELSE pc' = "crashed" /\ exit_status' \in UncaughtStatus
    /\ UNCHANGED <<args, top_n, refresh, it, lastq, fprocs, procs, term_width,
                   cpu_bar_w, mem_bar_w, ri, screen, cleared, done, fetched,
                   measured, gone, prevShown, bar_in, bar_out>>

\* line 167
Except ==
    /\ pc = "except"
    /\ Emit([kind |-> "exiting", text |-> "Exiting..."])
    /\ pc' = "exit"
    /\ UNCHANGED <<drawFrame, ri>>

\* line 168
Exit ==
    /\ pc = "exit"
    /\ pc' = "stopped"
    /\ exit_status' = 0
    /\ UNCHANGED <<args, top_n, refresh, it, lastq, fprocs, procs, term_width,
                   cpu_bar_w, mem_bar_w, ri, screen, cleared, done, fetched,
                   measured, gone, prevShown, intr_at, bar_in, bar_out>>

\* the statements of the program, without the interrupt
Step ==
    \/ Clamp \/ PrimeIter \/ PrimeDone
    \/ Sleep \/ FetchStart \/ FetchIter \/ FetchReturn \/ Sort \/ Measure \/ Clear
    \/ Draw \/ DrawLogo \/ DrawTitle \/ DrawRule1 \/ DrawHeader \/ DrawRule2
    \/ DrawRow \/ DrawRule3 \/ DrawFooter
    \/ Except \/ Exit

Next == Step \/ Interrupt

Spec == Init /\ [][Next]_vars

----------------------------------------------------------------------------
(* The ranking alone: main stands at line 162 with any list fetch_processes  *)
(* may have returned (pids ascending, as process_iter yields them)           *)

RankCpu == {100, 500}
RankMem == {10, 50, 990}

RankInputs ==
    UNION {{[i \in 1..n |-> [pid |-> i, name |-> "", cpu |-> f[i][1], mem |-> f[i][2]]] :
               f \in [1..n -> RankCpu \X RankMem]} : n \in 0..MaxSortLen}

InitRank ==
    /\ pc = "sort"
    /\ args = [top |-> 1, refresh |-> DEFAULT_REFRESH]
    /\ top_n = 1
    /\ refresh = DEFAULT_REFRESH
    /\ it = 0
    /\ lastq = NoQuery
    /\ fprocs = <<>>
    /\ procs \in RankInputs
    /\ fetched = procs
    /\ term_width = 0
    /\ cpu_bar_w = 0
    /\ mem_bar_w = 0
    /\ ri = 0
    /\ screen = <<>>
    /\ exit_status = -1
    /\ cleared = FALSE
    /\ done = <<"sleep", "fetch">>
    /\ measured = 0
    /\ gone = {}
    /\ prevShown = {}
    /\ intr_at = "none"
    /\ bar_in = [value |-> 0, width |-> 0]
    /\ bar_out = ""

SpecRank == InitRank /\ [][Sort]_vars

----------------------------------------------------------------------------
(* draw alone: main stands at line 165 with any terminal width 1..MaxWidth   *)
(* and a ranked list                                                         *)

LongPid == [pid |-> 4194304, name |-> Rep("n", MAX_NAME_LEN), cpu |-> 9999, mem |-> 1000]
ShortPid == [pid |-> 7, name |-> "", cpu |-> 5, mem |-> 0]

LayoutProcs == {<<>>, <<LongPid>>, <<ShortPid>>, <<LongPid, ShortPid>>}

InitLayout ==
    /\ pc = "draw"
    /\ args = [top |-> 1, refresh |-> DEFAULT_REFRESH]
    /\ top_n = 1
    /\ refresh = DEFAULT_REFRESH
    /\ it = 0
    /\ lastq = NoQuery
    /\ fprocs = <<>>
    /\ procs \in LayoutProcs
    /\ fetched = procs
    /\ term_width \in 1..MaxWidth
    /\ measured = term_width
    /\ cpu_bar_w = 0
    /\ mem_bar_w = 0
    /\ ri = 0
    /\ screen = <<>>
    /\ exit_status = -1
    /\ cleared = TRUE
    /\ done = <<"sleep", "fetch", "sort", "measure", "clear">>
    /\ gone = {}
    /\ prevShown = {}
    /\ intr_at = "none"
    /\ bar_in = [value |-> 0, width |-> 0]
    /\ bar_out = ""

NextLayout ==
    \/ Draw \/ DrawLogo \/ DrawTitle \/ DrawRule1 \/ DrawHeader \/ DrawRule2
    \/ DrawRow \/ DrawRule3 \/ DrawFooter

SpecLayout == InitLayout /\ [][NextLayout]_vars

----------------------------------------------------------------------------
(* proportion_bar alone: one call with any value and any width >= 1 *)

BarValues == {5 * k : k \in (0 - BarOver)..(200 + BarOver)}
BarWidths == 1..MaxBarWidth

InitBar ==
    /\ pc = "bar"
    /\ args = [top |-> 1, refresh |-> DEFAULT_REFRESH]
    /\ top_n = 1
    /\ refresh = DEFAULT_REFRESH
    /\ it = 0
    /\ lastq = NoQuery
    /\ fprocs = <<>>
    /\ procs = <<>>
    /\ fetched = <<>>
    /\ term_width = 0
    /\ measured = 0
    /\ cpu_bar_w = 0
    /\ mem_bar_w = 0
    /\ ri = 0
    /\ screen = <<>>
    /\ exit_status = -1
    /\ cleared = FALSE
    /\ done = <<>>
    /\ gone = {}
    /\ prevShown = {}
    /\ intr_at = "none"
    /\ bar_in \in [value : BarValues, width : BarWidths]
    /\ bar_out = ""

Bar ==
    /\ pc = "bar"
    /\ bar_out' = proportion_bar(bar_in.value, bar_in.width)
    /\ pc' = "bar_done"
    /\ UNCHANGED <<args, top_n, refresh, it, lastq, fprocs, procs, term_width,
                   cpu_bar_w, mem_bar_w, ri, screen, exit_status, cleared, done,
                   fetched, measured, gone, prevShown, intr_at, bar_in>>

SpecBar == InitBar /\ [][Bar]_vars

----------------------------------------------------------------------------
(* Properties *)

FullCycle == <<"sleep", "fetch", "sort", "measure", "clear", "draw">>

\* the statements of draw that follow the layout of lines 89-99
LaidOutPcs == {"draw_logo", "draw_title", "draw_rule1", "draw_header",
               "draw_rule2", "draw_rows", "draw_footer"}

\* the statements between the clear_screen of a tick and the end of its draw
AfterClearPcs == {"draw"} \cup LaidOutPcs

Lines(kind) == SelectSeq(screen, LAMBDA l : l.kind = kind)

PidsOf(ps) == {ps[i].pid : i \in 1..Len(ps)}

\* the draw of this iteration has returned
DrawDone == done = FullCycle

\* the screen was cleared and the footer that ends a tick's output is not on it
HalfDrawn == cleared /\ Lines("footer") = <<>>

\* C1 as claimed: after an interrupt, every tick that started its output has
\* completed it, so the display is never left cleared-but-unrendered or partly
\* rendered.
C1_AsClaimed == intr_at # "none" => ~HalfDrawn

\* C1 as amended: after an interrupt the display is left cleared-but-unrendered
\* or partly rendered exactly when the interrupt arrived between the tick's
\* clear_screen and the end of its draw; an interrupt arriving at any other
\* statement leaves every tick that started its output complete.
C1_InterruptLeavesTickWhereItWas ==
    intr_at # "none" => (HalfDrawn <=> intr_at \in AfterClearPcs)

C1_Witness ==
    /\ pc = "stopped"
    /\ intr_at = "sleep"
    /\ cleared
    /\ Len(Lines("footer")) = 1
    /\ Len(Lines("exiting")) = 1

\* C2 as claimed: an interrupt at any point after the program has started ends
\* the run stopped with status 0 and "Exiting..." printed, never a non-zero
\* status.
C2_AsClaimed ==
    intr_at # "none" =>
        /\ pc \in {"except", "exit", "stopped"}
        /\ exit_status \in {-1, 0}
        /\ (pc = "stopped" => exit_status = 0 /\ Len(Lines("exiting")) = 1)

\* C3: after the sort the list holds the sampled records in descending order of
\* cpu, ties in descending order of mem, and records equal on both in their
\* input order.
C3_RankedDescendingStable ==
    (done = <<"sleep", "fetch", "sort">>) =>
        /\ Len(procs) = Len(fetched)
        /\ \A k \in 1..Len(fetched) : \E i \in 1..Len(procs) : procs[i] = fetched[k]
        /\ \A i, j \in 1..Len(procs) :
              i < j =>
                 /\ procs[i].cpu >= procs[j].cpu
                 /\ (procs[i].cpu = procs[j].cpu => procs[i].mem >= procs[j].mem)
                 /\ (procs[i].cpu = procs[j].cpu /\ procs[i].mem = procs[j].mem
                        => procs[i].pid < procs[j].pid)

C3_Witness ==
    /\ pc = "measure"
    /\ Len(fetched) = 3
    /\ <<fetched[1].cpu, fetched[1].mem>> = <<100, 50>>
    /\ <<fetched[2].cpu, fetched[2].mem>> = <<500, 10>>
    /\ <<fetched[3].cpu, fetched[3].mem>> = <<500, 990>>
    /\ <<procs[1].pid, procs[2].pid, procs[3].pid>> = <<3, 2, 1>>

\* C4: a finished draw has printed exactly min(top_n, len(procs)) rows, the
\* first of the ranked list in their order, under a title naming top_n and
\* above a footer whose count is the number of rows printed; top_n >= 1.
C4_RowsAreTopOfRanking ==
    DrawDone =>
        LET rows == Lines("row")
        IN  /\ top_n >= 1
            /\ Len(rows) = Min(top_n, Len(procs))
            /\ \A i \in 1..Len(rows) :
                  /\ rows[i].pid = procs[i].pid
                  /\ rows[i].text =
                        row_line(procs[i], split_cpu(bar_space(term_width)),
                                 split_mem(bar_space(term_width)))
            /\ Len(Lines("title")) = 1
            /\ Lines("title")[1].top = top_n
            /\ Len(Lines("footer")) = 1
            /\ Lines("footer")[1].showing = Len(rows)
            /\ exit_status \in {-1, 0} \/ intr_at # "none"

C4_Witness ==
    /\ pc = "sleep"
    /\ DrawDone
    /\ Len(procs) >= 1
    /\ top_n > Len(procs)
    /\ Len(Lines("row")) = Len(procs)

\* C5: in a fetch, a process whose query raised NoSuchProcess or AccessDenied
\* (or that process_iter did not yield) is left out of the list, every other
\* process is in it exactly once with both metrics, no such process ends the
\* program, and the rows of the tick's finished draw show none of them.
C5_SkippedProcessesAreOmitted ==
    /\ (pc = "crashed" => intr_at # "none")
    /\ (pc = "fetch_iter" /\ it > 0) =>
          /\ lastq.pid = it
          /\ PidsOf(fprocs) \cup gone = 1..it
          /\ PidsOf(fprocs) \cap gone = {}
          /\ \A i, j \in 1..Len(fprocs) : i < j => fprocs[i].pid < fprocs[j].pid
          /\ IF lastq.listed /\ lastq.cpu_err = "none" /\ lastq.mem_err = "none"
             THEN /\ fprocs # <<>>
                  /\ fprocs[Len(fprocs)].pid = it
                  /\ fprocs[Len(fprocs)].cpu = lastq.cpu
                  /\ fprocs[Len(fprocs)].mem = lastq.mem
             ELSE it \in gone
    /\ (Len(done) >= 2 /\ done[2] = "fetch") =>
          /\ PidsOf(procs) \cup gone = Pids
          /\ PidsOf(procs) \cap gone = {}
          /\ Cardinality(PidsOf(procs)) = Len(procs)
    /\ DrawDone => RowPids(screen) \cap gone = {}

C5_Witness ==
    /\ pc = "sleep"
    /\ DrawDone
    /\ prevShown \cap gone # {}
    /\ RowPids(screen) # {}

\* C6 as claimed: for every terminal width both bar widths of the layout are
\* at least MIN_BAR_WIDTH.
C6_AsClaimed ==
    pc \in LaidOutPcs => cpu_bar_w >= MIN_BAR_WIDTH /\ mem_bar_w >= MIN_BAR_WIDTH

\* C7: for a terminal at least reserved + 2 * MIN_BAR_WIDTH wide the two bar
\* widths fit the space left of the reserved width, each is at least
\* MIN_BAR_WIDTH, and the memory bar is as wide as the CPU bar or one wider.
C7_BarsSplitTheSpace ==
    (pc \in LaidOutPcs /\ term_width >= reserved + 2 * MIN_BAR_WIDTH) =>
        /\ cpu_bar_w + mem_bar_w <= term_width - reserved
        /\ cpu_bar_w >= MIN_BAR_WIDTH
        /\ mem_bar_w >= MIN_BAR_WIDTH
        /\ mem_bar_w - cpu_bar_w \in {0, 1}

C7_Witness ==
    /\ pc = "draw_logo"
    /\ term_width = reserved + 2 * MIN_BAR_WIDTH + 1
    /\ mem_bar_w = cpu_bar_w + 1

\* C8: for a terminal at least reserved + MIN_BAR_WIDTH wide the header row and
\* every data row printed are at most term_width characters long.
C8_RowsFitTheTerminal ==
    (term_width >= reserved + MIN_BAR_WIDTH) =>
        \A i \in 1..Len(screen) :
            screen[i].kind \in {"header", "row"} => Len(screen[i].text) <= term_width

C8_Witness ==
    /\ pc = "sleep"
    /\ term_width = reserved + MIN_BAR_WIDTH
    /\ Len(Lines("header")) = 1
    /\ Len(Lines("row")) = 1
    /\ Lines("row")[1].pid = LongPid.pid

\* the number of filled cells of a bar string
Filled(bar) == Cardinality({i \in 1..Len(bar) : SubSeq(bar, i, i) = "#"})

\* C9: proportion_bar(v, w), w >= 1, is '[' + filled cells + empty cells + ']',
\* w + 2 characters; the filled cells are v/100 * w rounded to the nearest
\* integer for v clamped to [0, 100]; none for v <= 0, w for v >= 100, and
\* never fewer for a greater v.
C9_BarIsProportional ==
    pc = "bar_done" =>
        LET v == bar_in.value
            w == bar_in.width
            f == Filled(bar_out)
            vc == IF v < 0 THEN 0 ELSE IF v > 1000 THEN 1000 ELSE v
        IN  /\ Len(bar_out) = w + 2
            /\ bar_out = "[" \o Rep("#", f) \o Rep(" ", w - f) \o "]"
            /\ 0 <= f /\ f <= w
            /\ 2 * (1000 * f - vc * w) <= 1000
            /\ 2 * (vc * w - 1000 * f) <= 1000
            /\ (v <= 0 => f = 0)
            /\ (v >= 1000 => f = w)
            /\ \A v2 \in BarValues :
                  v2 >= v => Filled(proportion_bar(v2, w)) >= f

C9_Witness ==
    /\ pc = "bar_done"
    /\ bar_in = [value |-> 1250, width |-> 4]
    /\ bar_out = "[####]"

\* C10: the loop runs sleep, fetch, sort, measure, clear, draw in this order,
\* each once in an iteration; the draw prints the sample and the width taken
\* in its own iteration; inside the loop a next statement can always run; and
\* the program is stopped only after an interrupt.
C10_LoopCycle ==
    /\ pc = "sleep" => done \in {<<>>, FullCycle}
    /\ pc \in {"fetch", "fetch_iter"} => done = SubSeq(FullCycle, 1, 1)
    /\ pc = "sort" => done = SubSeq(FullCycle, 1, 2)
    /\ pc = "measure" => done = SubSeq(FullCycle, 1, 3)
    /\ pc = "clear" => done = SubSeq(FullCycle, 1, 4)
    /\ pc \in AfterClearPcs => done = SubSeq(FullCycle, 1, 5)
    /\ (pc \in AfterClearPcs \/ DrawDone) =>
          /\ measured = term_width
          /\ measured \in TermWidths
          /\ procs = sort_reverse(fetched)
          /\ RowPids(screen) \subseteq PidsOf(fetched)
          /\ \A i \in 1..Len(screen) :
                screen[i].kind = "rule" => Len(screen[i].text) = measured
    /\ pc \in TryPcs => ENABLED Step
    /\ pc = "stopped" => intr_at # "none" /\ exit_status = 0

C10_Witness ==
    /\ pc = "sleep"
    /\ done = FullCycle
    /\ prevShown # {}
    /\ RowPids(screen) # {}

====
